---------------------------- MODULE Spec2Model ----------------------------
(* Model of the telecom resilience simulator of src/app/page.tsx: the      *)
(* component state of TelecomSimulator and its handlers resetSimulation,   *)
(* toggleEdge, runDFS, runBFS, recoverNetwork and handleCanvasClick.       *)
(*                                                                         *)
(* Node ids are the integers 1..n (the source uses the strings "1".."13"), *)
(* null is Null.  The optional boolean fields isArticulationPoint,         *)
(* isBridge and isRecovery are only ever read for their truthiness, so an  *)
(* absent field is modelled as FALSE.  Labels are not modelled:            *)
(* getNodeLabel(id) is the id itself, and a trace line is a record of its  *)
(* message and the ids it mentions.                                        *)
EXTENDS Integers, Sequences, FiniteSets, TLC

VARIABLES initialGraph, graph, selectedNode, targetNode, algorithmResult,
          path, bridges, articulationPoints, mode, recoveryEdges, lastOp,
          outcome

(* lastOp is the name of the handler that ran last ("load" after          *)
(* construction) and outcome is how that call ended: "returned", or the   *)
(* name of the exception it threw.  A handler that throws keeps the state *)
(* updates it queued before the throw.  Neither is read by a handler.     *)
vars == <<initialGraph, graph, selectedNode, targetNode, algorithmResult,
          path, bridges, articulationPoints, mode, recoveryEdges, lastOp,
          outcome>>

-----------------------------------------------------------------------------
(* Bounds of the model.                                                    *)

MaxNodes == 4

MaxEdges == 3

Null == 0

(* const hitRadius = 20 *)
hitRadius == 20

(* Distance between neighbouring grid positions of the generated layouts, *)
(* wider than twice the hit radius so that a click selects one position.  *)
Spacing == 5 * hitRadius

-----------------------------------------------------------------------------
(* Data.                                                                   *)

NodeTypes == {"city", "barangay", "hub"}

mkNode(i, px, py, t) ==
    [id |-> i, x |-> px, y |-> py, type |-> t, isArticulationPoint |-> FALSE]

mkEdge(s, t, a) ==
    [source |-> s, target |-> t, isBridge |-> FALSE, isActive |-> a,
     isRecovery |-> FALSE]

Msg(m, a) == [msg |-> m, args |-> a]

Min(a, b) == IF a < b THEN a ELSE b

NodeIds(g) == {g.nodes[i].id : i \in 1..Len(g.nodes)}

(* Array.prototype.map / filter / find / some on sequences. *)
MapSeq(s, F(_)) == [i \in 1..Len(s) |-> F(s[i])]

FindIndex(s, P(_)) ==
    IF \E i \in 1..Len(s) : P(s[i])
    THEN CHOOSE i \in 1..Len(s) : P(s[i]) /\ \A j \in 1..(i - 1) : ~P(s[j])
    ELSE 0

(* (e.source === a && e.target === b) || (e.source === b && e.target === a) *)
SamePair(e, a, b) ==
    \/ (e.source = a /\ e.target = b)
    \/ (e.source = b /\ e.target = a)

-----------------------------------------------------------------------------
(* Adjacency list over the active edges, as each algorithm builds it.      *)

(* Mutant: the filter on isActive is forgotten. *)
ActiveEdgesAll(g) == g.edges

(* Mutant: an edge flagged as a bridge by an earlier run is left out. *)
ActiveEdgesUnflagged(g) == SelectSeq(g.edges, LAMBDA e : e.isActive /\ ~e.isBridge)

ActiveEdges(g) == SelectSeq(g.edges, LAMBDA e : e.isActive)

(* Mutant: the edge is entered for its source only. *)
RECURSIVE AdjPushDirected(_, _, _)
AdjPushDirected(adj, es, i) ==
    IF i > Len(es) THEN adj
    ELSE AdjPushDirected([adj EXCEPT ![es[i].source] = Append(@, es[i].target)], es, i + 1)

RECURSIVE AdjPush(_, _, _)
AdjPush(adj, es, i) ==
    IF i > Len(es) THEN adj
    ELSE LET e  == es[i]
             a1 == [adj EXCEPT ![e.source] = Append(@, e.target)]
             a2 == [a1 EXCEPT ![e.target] = Append(@, e.source)]
         IN  AdjPush(a2, es, i + 1)

BuildAdjList(g) == AdjPush([id \in NodeIds(g) |-> <<>>], ActiveEdges(g), 1)

-----------------------------------------------------------------------------
(* runDFS: bridges and articulation points.                                *)
(* The per-call result arrays of dfsVisit are concatenated in call order   *)
(* (result.push(...childResults) right after the call), which is the       *)
(* chronological order of the pushes, so one log st.result is kept.        *)

DFSInit(g) ==
    [visited |-> {},
     discoveryTime |-> [id \in NodeIds(g) |-> 0],
     lowTime |-> [id \in NodeIds(g) |-> 0],
     parent |-> [id \in NodeIds(g) |-> Null],
     foundBridges |-> <<>>,
     foundArticulationPoints |-> {},
     time |-> 0,
     result |-> <<>>]

(* v !== parent[u]: the neighbour is not the DFS parent (compared by id). *)
NotParent(st, u, v) == v # st.parent[u]

(* Mutant: the comparison is not strict. *)
BridgeTestNotStrict(st, u, v) == st.lowTime[v] >= st.discoveryTime[u]

(* lowTime[v] > discoveryTime[u] *)
BridgeTest(st, u, v) == st.lowTime[v] > st.discoveryTime[u]

(* Mutant: the root is not excepted. *)
ArticulationTestAnyNode(st, u, v, isRoot) == st.lowTime[v] >= st.discoveryTime[u]

(* !isRoot && lowTime[v] >= discoveryTime[u] *)
ArticulationTest(st, u, v, isRoot) ==
    ~isRoot /\ st.lowTime[v] >= st.discoveryTime[u]

RECURSIVE dfsVisit(_, _, _, _, _)
RECURSIVE dfsLoop(_, _, _, _, _, _, _)

dfsVisit(st, adj, act, u, isRoot) ==
    LET s1 == [st EXCEPT !.result = Append(@, Msg("Visiting", <<u>>)),
                         !.visited = @ \cup {u},
                         !.time = @ + 1,
                         !.discoveryTime[u] = st.time + 1,
                         !.lowTime[u] = st.time + 1]
    IN  dfsLoop(s1, adj, act, u, isRoot, 1, 0)

dfsLoop(st, adj, act, u, isRoot, i, childCount) ==
    IF i > Len(adj[u])
    THEN IF isRoot /\ childCount > 1
         THEN [st EXCEPT !.result = Append(@, Msg("Root is an articulation point", <<u>>)),
                         !.foundArticulationPoints = @ \cup {u}]
         ELSE st
    ELSE
      LET v == adj[u][i] IN
      IF v \notin st.visited
      THEN LET s1 == [st EXCEPT !.parent[v] = u,
                                !.result = Append(@, Msg("Exploring edge", <<u, v>>))]
               s2 == dfsVisit(s1, adj, act, v, FALSE)
               s3 == [s2 EXCEPT !.lowTime[u] = Min(@, s2.lowTime[v])]
               s4 == IF ArticulationTest(s3, u, v, isRoot)
                     THEN [s3 EXCEPT !.result = Append(@, Msg("Found articulation point", <<u>>)),
                                     !.foundArticulationPoints = @ \cup {u}]
                     ELSE s3
               k  == FindIndex(act, LAMBDA e : SamePair(e, u, v))
               s5 == IF BridgeTest(s4, u, v)
                     THEN [s4 EXCEPT !.result = Append(@, Msg("Found bridge", <<u, v>>)),
                                     !.foundBridges = IF k # 0 THEN Append(@, act[k]) ELSE @]
                     ELSE s4
           IN  dfsLoop(s5, adj, act, u, isRoot, i + 1, childCount + 1)
      ELSE IF NotParent(st, u, v)
      THEN dfsLoop([st EXCEPT !.lowTime[u] = Min(@, st.discoveryTime[v]),
                              !.result = Append(@, Msg("Back edge", <<u, v>>))],
                   adj, act, u, isRoot, i + 1, childCount)
      ELSE dfsLoop(st, adj, act, u, isRoot, i + 1, childCount)

(* The traversal from the first node of the node list. *)
DFSRun(g) ==
    dfsVisit(DFSInit(g), BuildAdjList(g), ActiveEdges(g), g.nodes[1].id, TRUE)

(* isBridge: foundBridges.some(bridge => same unordered endpoint pair) *)
MarkBridge(edge, foundBridges) ==
    [edge EXCEPT !.isBridge =
        \E k \in 1..Len(foundBridges) :
            SamePair(foundBridges[k], edge.source, edge.target)]

(* Mutant: the flags are mapped over the active edges only. *)
updatedEdgesActiveOnly(g, foundBridges) ==
    MapSeq(ActiveEdges(g), LAMBDA edge : MarkBridge(edge, foundBridges))

updatedEdges(g, foundBridges) ==
    MapSeq(g.edges, LAMBDA edge : MarkBridge(edge, foundBridges))

updatedNodes(g, foundAPs) ==
    MapSeq(g.nodes,
           LAMBDA node : [node EXCEPT !.isArticulationPoint = node.id \in foundAPs])

(* graph.nodes[0].id throws a TypeError when the node list is empty, after *)
(* setPath([]) and setAlgorithmResult([]).                                 *)
runDFS ==
    IF Len(graph.nodes) = 0
    THEN /\ path' = <<>>
         /\ algorithmResult' = <<>>
         /\ outcome' = "TypeError"
         /\ UNCHANGED <<initialGraph, graph, selectedNode, targetNode, bridges,
                        articulationPoints, mode, recoveryEdges>>
    ELSE
    LET r  == DFSRun(graph)
        un == updatedNodes(graph, r.foundArticulationPoints)
    IN  /\ path' = <<>>
        /\ algorithmResult' = r.result
        /\ graph' = [nodes |-> un, edges |-> updatedEdges(graph, r.foundBridges)]
        /\ bridges' = r.foundBridges
        /\ articulationPoints' = SelectSeq(un, LAMBDA node : node.isArticulationPoint)
        /\ outcome' = "returned"
        /\ UNCHANGED <<initialGraph, selectedNode, targetNode, mode, recoveryEdges>>

-----------------------------------------------------------------------------
(* runBFS: shortest path between the selected source and target.           *)

(* Mutant: prev is overwritten for a node that was discovered before. *)
RECURSIVE bfsNeighborsOverwrite(_, _, _, _)
bfsNeighborsOverwrite(st, adj, current, i) ==
    IF i > Len(adj[current]) THEN st
    ELSE LET neighbor == adj[current][i] IN
         IF neighbor \notin st.visited
         THEN bfsNeighborsOverwrite(
                [st EXCEPT !.queue = Append(@, neighbor),
                           !.visited = @ \cup {neighbor},
                           !.prev[neighbor] = current],
                adj, current, i + 1)
         ELSE IF st.prev[neighbor] # Null /\ st.prev[current] # neighbor
         THEN bfsNeighborsOverwrite([st EXCEPT !.prev[neighbor] = current],
                                    adj, current, i + 1)
         ELSE bfsNeighborsOverwrite(st, adj, current, i + 1)

RECURSIVE bfsNeighbors(_, _, _, _)
bfsNeighbors(st, adj, current, i) ==
    IF i > Len(adj[current]) THEN st
    ELSE LET neighbor == adj[current][i] IN
         IF neighbor \notin st.visited
         THEN bfsNeighbors(
                [st EXCEPT !.queue = Append(@, neighbor),
                           !.visited = @ \cup {neighbor},
                           !.prev[neighbor] = current,
                           !.result = Append(@, Msg("Discovered", <<neighbor, current>>))],
                adj, current, i + 1)
         ELSE bfsNeighbors(st, adj, current, i + 1)

(* for (const neighbor of adjList[current]) throws a TypeError when        *)
(* adjList has no entry for current: adjList[current] is undefined.        *)
RECURSIVE bfsLoop(_, _, _)
bfsLoop(st, adj, target) ==
    IF st.queue = <<>> THEN st
    ELSE LET current == Head(st.queue)
             s1 == [st EXCEPT !.queue = Tail(@),
                              !.result = Append(@, Msg("Visiting", <<current>>))]
         IN  IF current = target
             THEN [s1 EXCEPT !.result = Append(@, Msg("Found target", <<target>>))]
             ELSE IF current \notin DOMAIN adj
             THEN [s1 EXCEPT !.thrown = TRUE]
             ELSE bfsLoop(bfsNeighbors(s1, adj, current, 1), adj, target)

(* prev and visited are keyed by id; the source is the one key that need  *)
(* not be a node of the graph.                                            *)
BFSRun(g, source, target) ==
    bfsLoop([queue |-> <<source>>,
             visited |-> {source},
             prev |-> [id \in NodeIds(g) \cup {source} |-> Null],
             result |-> <<Msg("Starting BFS", <<source>>)>>,
             thrown |-> FALSE],
            BuildAdjList(g), target)

(* Mutant: the walk stops at the source without entering it. *)
RECURSIVE reconstructDropSource(_, _, _)
reconstructDropSource(prev, current, shortestPath) ==
    IF prev[current] = Null THEN shortestPath
    ELSE reconstructDropSource(prev, prev[current], <<current>> \o shortestPath)

(* while (current !== null) { shortestPath.unshift(current); current = prev[current] } *)
RECURSIVE reconstruct(_, _, _)
reconstruct(prev, current, shortestPath) ==
    IF current = Null THEN shortestPath
    ELSE reconstruct(prev, prev[current], <<current>> \o shortestPath)

(* A throw inside the traversal leaves the queued setAlgorithmResult([])  *)
(* as the only update.                                                    *)
runBFS ==
    IF selectedNode = Null \/ targetNode = Null
    THEN /\ algorithmResult' = <<Msg("Please select both source and target nodes", <<>>)>>
         /\ outcome' = "returned"
         /\ UNCHANGED <<initialGraph, graph, selectedNode, targetNode, path,
                        bridges, articulationPoints, mode, recoveryEdges>>
    ELSE LET st == BFSRun(graph, selectedNode, targetNode)
             sp == reconstruct(st.prev, targetNode, <<>>)
         IN  /\ IF st.thrown
                THEN /\ path' = path
                     /\ algorithmResult' = <<>>
                     /\ outcome' = "TypeError"
                ELSE IF targetNode \in st.visited
                THEN /\ path' = sp
                     /\ algorithmResult' = Append(st.result, Msg("Shortest path", sp))
                     /\ outcome' = "returned"
                ELSE /\ path' = <<>>
                     /\ algorithmResult' =
                            Append(st.result, Msg("No path exists", <<selectedNode, targetNode>>))
                     /\ outcome' = "returned"
             /\ UNCHANGED <<initialGraph, graph, selectedNode, targetNode,
                            bridges, articulationPoints, mode, recoveryEdges>>

-----------------------------------------------------------------------------
(* recoverNetwork: reconnect the nodes that the hub cannot reach.          *)

(* graph.nodes.find(node => node.type === "hub")?.id || graph.nodes[0].id *)
hubOf(g) ==
    LET k == FindIndex(g.nodes, LAMBDA node : node.type = "hub")
    IN  IF k # 0 THEN g.nodes[k].id ELSE g.nodes[1].id

RECURSIVE reachNeighbors(_, _, _, _)
reachNeighbors(st, adj, current, i) ==
    IF i > Len(adj[current]) THEN st
    ELSE LET neighbor == adj[current][i] IN
         IF neighbor \notin st.visited
         THEN reachNeighbors([st EXCEPT !.queue = Append(@, neighbor),
                                        !.visited = @ \cup {neighbor}],
                             adj, current, i + 1)
         ELSE reachNeighbors(st, adj, current, i + 1)

RECURSIVE reachLoop(_, _)
reachLoop(st, adj) ==
    IF st.queue = <<>> THEN st
    ELSE reachLoop(reachNeighbors([st EXCEPT !.queue = Tail(@)], adj, Head(st.queue), 1), adj)

(* The visited map of the BFS from the hub, as the set of visited ids. *)
reachableFromHub(g) ==
    reachLoop([queue |-> <<hubOf(g)>>, visited |-> {hubOf(g)}], BuildAdjList(g)).visited

(* dx * dx + dy * dy.  The source compares Math.sqrt of this number; on    *)
(* the integers of a canvas the correctly rounded square root is strictly  *)
(* increasing, so comparing the squares decides the same way.              *)
distance2(a, b) == (a.x - b.x) * (a.x - b.x) + (a.y - b.y) * (a.y - b.y)

(* Mutant: a tie replaces the node found so far. *)
closerOrEqual(d, c) == c.isMax \/ d <= c.minDistance

(* distance < minDistance; minDistance starts at Number.MAX_VALUE (isMax). *)
closer(d, c) == c.isMax \/ d < c.minDistance

RECURSIVE closestScan(_, _, _, _)
closestScan(c, connectedNodes, disconnectedNode, i) ==
    IF i > Len(connectedNodes) THEN c
    ELSE LET d == distance2(connectedNodes[i], disconnectedNode) IN
         IF closer(d, c)
         THEN closestScan([closestNode |-> connectedNodes[i], minDistance |-> d,
                           isMax |-> FALSE],
                          connectedNodes, disconnectedNode, i + 1)
         ELSE closestScan(c, connectedNodes, disconnectedNode, i + 1)

closestNodeTo(connectedNodes, disconnectedNode) ==
    closestScan([closestNode |-> connectedNodes[1], minDistance |-> 0, isMax |-> TRUE],
                connectedNodes, disconnectedNode, 1).closestNode

recoveryEdgeFor(connectedNodes, disconnectedNode) ==
    [source |-> disconnectedNode.id,
     target |-> closestNodeTo(connectedNodes, disconnectedNode).id,
     isBridge |-> FALSE, isActive |-> TRUE, isRecovery |-> TRUE]

disconnectedNodesOf(g) ==
    SelectSeq(g.nodes, LAMBDA node : node.id \notin reachableFromHub(g))

(* Mutant: a disconnected node is joined to its nearest other node, in R or not. *)
planRecoveryNearestAny(g) ==
    MapSeq(disconnectedNodesOf(g),
           LAMBDA node : recoveryEdgeFor(SelectSeq(g.nodes, LAMBDA m : m.id # node.id),
                                         node))

(* newRecoveryEdges, one per disconnected node in node order. *)
planRecovery(g) ==
    LET visited == reachableFromHub(g)
        connectedNodes == SelectSeq(g.nodes, LAMBDA node : node.id \in visited)
    IN  MapSeq(disconnectedNodesOf(g),
               LAMBDA node : recoveryEdgeFor(connectedNodes, node))

(* With no node, graph.nodes[0].id throws a TypeError after                *)
(* setRecoveryEdges([]) and setAlgorithmResult([]).                        *)
recoverNetwork ==
    IF Len(graph.nodes) = 0
    THEN /\ recoveryEdges' = <<>>
         /\ algorithmResult' = <<>>
         /\ outcome' = "TypeError"
         /\ UNCHANGED <<initialGraph, graph, selectedNode, targetNode, path,
                        bridges, articulationPoints, mode>>
    ELSE
    LET dn == disconnectedNodesOf(graph)
        ne == planRecovery(graph)
    IN  /\ outcome' = "returned"
        /\ IF Len(dn) = 0
           THEN /\ recoveryEdges' = <<>>
                /\ algorithmResult' = <<Msg("Starting network recovery process", <<>>),
                                        Msg("All nodes are connected", <<>>)>>
           ELSE /\ recoveryEdges' = ne
                /\ algorithmResult' =
                       <<Msg("Starting network recovery process", <<>>),
                         Msg("Found disconnected nodes", MapSeq(dn, LAMBDA n : n.id))>>
                       \o MapSeq(ne, LAMBDA e : Msg("Reconnecting", <<e.source, e.target>>))
        /\ UNCHANGED <<initialGraph, graph, selectedNode, targetNode, path,
                       bridges, articulationPoints, mode>>

-----------------------------------------------------------------------------
(* resetSimulation, toggleEdge, handleCanvasClick, setMode.                *)

(* Mutant: a failed link of the loaded topology stays failed. *)
resetGraphKeepFailed(original) ==
    [nodes |-> [i \in 1..Len(original.nodes) |->
                   [original.nodes[i] EXCEPT !.isArticulationPoint = FALSE]],
     edges |-> [i \in 1..Len(original.edges) |->
                   [original.edges[i] EXCEPT !.isBridge = FALSE]]]

resetGraph(original) ==
    [nodes |-> MapSeq(original.nodes,
                      LAMBDA node : [node EXCEPT !.isArticulationPoint = FALSE]),
     edges |-> MapSeq(original.edges,
                      LAMBDA edge : [edge EXCEPT !.isBridge = FALSE, !.isActive = TRUE])]

resetSimulation ==
    /\ graph' = resetGraph(initialGraph)
    /\ selectedNode' = Null
    /\ targetNode' = Null
    /\ algorithmResult' = <<>>
    /\ path' = <<>>
    /\ bridges' = <<>>
    /\ articulationPoints' = <<>>
    /\ recoveryEdges' = <<>>
    /\ mode' = "normal"
    /\ outcome' = "returned"
    /\ UNCHANGED initialGraph

(* Mutant: only an edge written source-first matches. *)
toggledSameOrder(edge, sourceId, targetId) ==
    IF edge.source = sourceId /\ edge.target = targetId
    THEN [edge EXCEPT !.isActive = ~edge.isActive]
    ELSE edge

(* The edge a toggle maps an edge to: flipped when its endpoints match. *)
toggled(edge, sourceId, targetId) ==
    IF SamePair(edge, sourceId, targetId)
    THEN [edge EXCEPT !.isActive = ~edge.isActive]
    ELSE edge

toggleGraph(g, sourceId, targetId) ==
    [g EXCEPT !.edges = MapSeq(g.edges, LAMBDA edge : toggled(edge, sourceId, targetId))]

toggleEdge(sourceId, targetId) ==
    /\ graph' = toggleGraph(graph, sourceId, targetId)
    /\ path' = <<>>
    /\ algorithmResult' = <<>>
    /\ outcome' = "returned"
    /\ UNCHANGED <<initialGraph, selectedNode, targetNode, bridges,
                   articulationPoints, mode, recoveryEdges>>

(* graph.nodes.find(node => dx * dx + dy * dy <= hitRadius * hitRadius) *)
clickedNodeAt(g, px, py) ==
    LET k == FindIndex(g.nodes,
                       LAMBDA node : (node.x - px) * (node.x - px)
                                     + (node.y - py) * (node.y - py)
                                     <= hitRadius * hitRadius)
    IN  IF k # 0 THEN g.nodes[k].id ELSE Null

(* Mutant: a new selection leaves the shown path in place. *)
handleCanvasClickKeepPath(px, py) ==
    LET clickedNode == clickedNodeAt(graph, px, py) IN
    /\ IF clickedNode = Null
       THEN UNCHANGED <<selectedNode, targetNode>>
       ELSE IF selectedNode = Null
       THEN selectedNode' = clickedNode /\ UNCHANGED targetNode
       ELSE IF targetNode = Null
       THEN /\ targetNode' = IF clickedNode # selectedNode THEN clickedNode ELSE targetNode
            /\ UNCHANGED selectedNode
       ELSE /\ selectedNode' = clickedNode
            /\ targetNode' = Null
    /\ outcome' = "returned"
    /\ UNCHANGED <<initialGraph, graph, algorithmResult, path, bridges,
                   articulationPoints, mode, recoveryEdges>>

handleCanvasClick(px, py) ==
    LET clickedNode == clickedNodeAt(graph, px, py) IN
    /\ IF clickedNode = Null
       THEN UNCHANGED <<selectedNode, targetNode, path>>
       ELSE IF selectedNode = Null
       THEN selectedNode' = clickedNode /\ UNCHANGED <<targetNode, path>>
       ELSE IF targetNode = Null
       THEN /\ targetNode' = IF clickedNode # selectedNode THEN clickedNode ELSE targetNode
            /\ UNCHANGED <<selectedNode, path>>
       ELSE /\ selectedNode' = clickedNode
            /\ targetNode' = Null
            /\ path' = <<>>
    /\ outcome' = "returned"
    /\ UNCHANGED <<initialGraph, graph, algorithmResult, bridges,
                   articulationPoints, mode, recoveryEdges>>

setMode(m) ==
    /\ mode' = m
    /\ outcome' = "returned"
    /\ UNCHANGED <<initialGraph, graph, selectedNode, targetNode, algorithmResult,
                   path, bridges, articulationPoints, recoveryEdges>>

-----------------------------------------------------------------------------
(* Loaded topologies.  The source loads the constant initialGraph; the     *)
(* model loads any graph of a bounded family in its place.                 *)

(* Ordered endpoint pairs over the nodes 1..n, both orientations. *)
Pairs(n) == {p \in (1..n) \X (1..n) : p[1] # p[2]}

(* One orientation of each pair. *)
UPairs(n) == {p \in Pairs(n) : p[1] < p[2]}

EdgeLists(pairs, k, flags) ==
    UNION {[1..m -> [ends : pairs, isActive : flags]] : m \in 0..k}

(* The edge lists that name each pair at most once, in ascending order. *)
SimpleEdgeLists(pairs, k, flags) ==
    {el \in EdgeLists(pairs, k, flags) :
        \A i \in 1..(Len(el) - 1) :
            \/ el[i].ends[1] < el[i + 1].ends[1]
            \/ el[i].ends[1] = el[i + 1].ends[1] /\ el[i].ends[2] < el[i + 1].ends[2]}

edgesOf(el) == [i \in 1..Len(el) |-> mkEdge(el[i].ends[1], el[i].ends[2], el[i].isActive)]

(* Node i at grid position pos[i], of type typ[i]. *)
nodesOf(n, pos, typ) ==
    [i \in 1..n |-> mkNode(i, Spacing * pos[i][1], Spacing * pos[i][2], typ[i])]

(* The fixed layout: node i in column i of row 0, the first node a hub. *)
rowLayout(n) == [i \in 1..n |-> <<i, 0>>]

rowTypes(n) == [i \in 1..n |-> IF i = 1 THEN "hub" ELSE "city"]

rowGraph(n, es) == [nodes |-> nodesOf(n, rowLayout(n), rowTypes(n)), edges |-> es]

(* The grid positions a generated layout places nodes on: the corners of *)
(* a square, so that nodes can coincide and be equally far from a third. *)
Grid == {0, 1} \X {0, 1}

(* A hub or not: the handlers tell no other types apart. *)
HubOrCity == {"hub", "city"}

(* The topologies the simulator is run on: the path A-B-C, a pair of     *)
(* parallel links with a pendant node, and a path loaded with a link down. *)
pathGraph == rowGraph(3, <<mkEdge(1, 2, TRUE), mkEdge(2, 3, TRUE)>>)

parallelGraph ==
    rowGraph(3, <<mkEdge(1, 2, TRUE), mkEdge(2, 1, TRUE), mkEdge(3, 2, TRUE)>>)

downGraph == rowGraph(3, <<mkEdge(2, 1, TRUE), mkEdge(2, 3, FALSE)>>)

Topologies == {pathGraph, parallelGraph, downGraph}

Loaded(g) ==
    /\ initialGraph = g
    /\ graph = g
    /\ algorithmResult = <<>>
    /\ path = <<>>
    /\ bridges = <<>>
    /\ articulationPoints = <<>>
    /\ mode = "normal"
    /\ recoveryEdges = <<>>
    /\ lastOp = "load"
    /\ outcome = "returned"

-----------------------------------------------------------------------------
(* The simulator: every handler the page wires to a control.               *)

Init ==
    \E g \in Topologies :
        /\ Loaded(g)
        /\ selectedNode = Null
        /\ targetNode = Null

Reset == resetSimulation /\ lastOp' = "reset"

(* A Toggle button of the failure table, shown in failure mode only. *)
Toggle ==
    /\ mode = "failure"
    /\ \E idx \in 1..Len(graph.edges) :
           toggleEdge(graph.edges[idx].source, graph.edges[idx].target)
    /\ lastOp' = "toggle"

RunDFS == runDFS /\ lastOp' = "dfs"

(* The Run BFS button is disabled until source and target are selected. *)
RunBFS ==
    /\ selectedNode # Null
    /\ targetNode # Null
    /\ runBFS
    /\ lastOp' = "bfs"

Recover == recoverNetwork /\ lastOp' = "recover"

(* A click on the canvas at the position of a node. *)
Click ==
    /\ \E i \in 1..Len(graph.nodes) :
           handleCanvasClick(graph.nodes[i].x, graph.nodes[i].y)
    /\ lastOp' = "click"

SetMode == (\E m \in {"normal", "failure"} : setMode(m)) /\ lastOp' = "mode"

Next == Reset \/ Toggle \/ RunDFS \/ RunBFS \/ Recover \/ Click \/ SetMode

Spec == Init /\ [][Next]_vars

-----------------------------------------------------------------------------
(* The algorithms as functions of the graph: each specification loads any  *)
(* graph of its family and applies one handler.                            *)

(* Every graph in the fixed layout, parallel edges and failed edges       *)
(* included: of at most MaxNodes nodes and MaxEdges edges with each edge  *)
(* written in one orientation, and of one node and one edge less with     *)
(* the edges written either way round.                                    *)
AnyGraph(g) ==
    \/ \E n \in 1..MaxNodes :
           \E el \in EdgeLists(UPairs(n), MaxEdges, BOOLEAN) : g = rowGraph(n, edgesOf(el))
    \/ \E n \in 1..(MaxNodes - 1) :
           \E el \in EdgeLists(Pairs(n), MaxEdges - 1, BOOLEAN) : g = rowGraph(n, edgesOf(el))

InitAnalysis ==
    /\ AnyGraph(initialGraph)
    /\ Loaded(initialGraph)
    /\ selectedNode = Null
    /\ targetNode = Null

SpecAnalysis == InitAnalysis /\ [][RunDFS]_vars

(* Graphs of up to MaxNodes - 1 nodes and MaxEdges edges, each edge       *)
(* written in one orientation, with any source and target among the      *)
(* nodes.                                                                *)
InitPath ==
    \E n \in 1..(MaxNodes - 1) :
        \E el \in EdgeLists(UPairs(n), MaxEdges, BOOLEAN) :
            \E s \in 1..n, t \in 1..n :
                /\ Loaded(rowGraph(n, edgesOf(el)))
                /\ selectedNode = s
                /\ targetNode = t

SpecPath == InitPath /\ [][RunBFS]_vars

(* Graphs of up to MaxNodes - 1 nodes that lie anywhere on the grid, each *)
(* a hub or a city, with up to MaxEdges - 2 edges between distinct pairs,  *)
(* failed ones included.                                                  *)
InitRecovery ==
    \E n \in 1..(MaxNodes - 1) :
        \E pos \in [1..n -> Grid], typ \in [1..n -> HubOrCity] :
            \E el \in SimpleEdgeLists(UPairs(n), MaxEdges - 2, BOOLEAN) :
                /\ Loaded([nodes |-> nodesOf(n, pos, typ), edges |-> edgesOf(el)])
                /\ selectedNode = Null
                /\ targetNode = Null

SpecRecovery == InitRecovery /\ [][Recover]_vars

(* recoverNetwork on any node list, the empty one included: up to         *)
(* MaxNodes - 2 nodes anywhere on the grid, each a hub or a city, with up *)
(* to MaxEdges - 2 edges between distinct pairs.                          *)
InitPlan ==
    \E n \in 0..(MaxNodes - 2) :
        \E pos \in [1..n -> Grid], typ \in [1..n -> HubOrCity] :
            \E el \in SimpleEdgeLists(UPairs(n), MaxEdges - 2, BOOLEAN) :
                /\ Loaded([nodes |-> nodesOf(n, pos, typ), edges |-> edgesOf(el)])
                /\ selectedNode = Null
                /\ targetNode = Null

SpecPlan == InitPlan /\ [][Recover]_vars

(* toggleEdge called with any two node ids. *)
ToggleAny ==
    /\ \E u \in NodeIds(graph), v \in NodeIds(graph) : toggleEdge(u, v)
    /\ lastOp' = "toggle"

(* Topologies loaded with every link up (the toggles bring links down):   *)
(* of at most MaxNodes - 1 nodes and MaxEdges edges with each edge        *)
(* written in one orientation, or one edge less written either way round. *)
InitToggle ==
    /\ \/ \E n \in 1..(MaxNodes - 1) :
              \E el \in EdgeLists(UPairs(n), MaxEdges, {TRUE}) :
                  initialGraph = rowGraph(n, edgesOf(el))
       \/ \E n \in 1..(MaxNodes - 1) :
              \E el \in EdgeLists(Pairs(n), MaxEdges - 1, {TRUE}) :
                  initialGraph = rowGraph(n, edgesOf(el))
    /\ Loaded(initialGraph)
    /\ selectedNode = Null
    /\ targetNode = Null

SpecToggle == InitToggle /\ [][ToggleAny]_vars

-----------------------------------------------------------------------------
(* Graph theory the claims are stated in, independent of the traversals.   *)

ActiveIdx(g) == {i \in 1..Len(g.edges) : g.edges[i].isActive}

(* The links (unordered endpoint pairs) of the edges with index in I. *)
Links(es, I) == {{es[i].source, es[i].target} : i \in I}

RECURSIVE Closure(_, _, _)
Closure(links, N, S) ==
    LET T == S \cup {b \in N : \E a \in S : {a, b} \in links}
    IN  IF T = S THEN S ELSE Closure(links, N, T)

(* The connected component of a among the nodes N. *)
Component(links, N, a) == Closure(links, N, {a})

NumComponents(links, N) == Cardinality({Component(links, N, a) : a \in N})

FirstNode(g) == g.nodes[1].id

(* The nodes the first node reaches over active edges. *)
FirstComponent(g) == Component(Links(g.edges, ActiveIdx(g)), NodeIds(g), FirstNode(g))

(* No two active edges join the same pair of nodes. *)
NoTwoActiveParallel(g) ==
    \A i \in ActiveIdx(g), j \in ActiveIdx(g) :
        i # j => {g.edges[i].source, g.edges[i].target}
                 # {g.edges[j].source, g.edges[j].target}

(* No edge, active or failed, has a parallel duplicate that is active. *)
NoParallelActive(g) ==
    \A i \in 1..Len(g.edges), j \in ActiveIdx(g) :
        i # j => {g.edges[i].source, g.edges[i].target}
                 # {g.edges[j].source, g.edges[j].target}

(* Edge i is active, lies in the first node's component, and removing it  *)
(* raises the number of components by exactly one.                        *)
IsCutEdge(g, i) ==
    /\ i \in ActiveIdx(g)
    /\ g.edges[i].source \in FirstComponent(g)
    /\ NumComponents(Links(g.edges, ActiveIdx(g) \ {i}), NodeIds(g))
         = NumComponents(Links(g.edges, ActiveIdx(g)), NodeIds(g)) + 1

(* Node a is reachable from the first node and removing it with its       *)
(* incident edges raises the number of components.                        *)
IsCutNode(g, a) ==
    LET links == Links(g.edges, ActiveIdx(g)) IN
    /\ a \in FirstComponent(g)
    /\ NumComponents({l \in links : a \notin l}, NodeIds(g) \ {a})
         > NumComponents(links, NodeIds(g))

(* Edge i is in the bridge list: an active edge with the endpoints, in    *)
(* order, of a listed bridge.                                             *)
Listed(g, bs, i) ==
    /\ g.edges[i].isActive
    /\ \E k \in 1..Len(bs) : /\ bs[k].source = g.edges[i].source
                             /\ bs[k].target = g.edges[i].target

-----------------------------------------------------------------------------
(* C1: for a graph in which no edge has a parallel duplicate that is      *)
(* active, after runDFS an edge is reported as a bridge (flagged isBridge, *)
(* and listed in bridges) if and only if it is an active edge of the first *)
(* node's component whose removal raises the number of connected           *)
(* components by exactly one.                                              *)
C1_BridgesExact ==
    (lastOp = "dfs" /\ NoParallelActive(graph)) =>
        \A i \in 1..Len(graph.edges) :
            /\ graph.edges[i].isBridge <=> IsCutEdge(graph, i)
            /\ Listed(graph, bridges, i) <=> IsCutEdge(graph, i)

(* The bridge list is exact as soon as no two active edges are parallel,  *)
(* failed duplicates allowed.                                             *)
C1_ListExact ==
    (lastOp = "dfs" /\ NoTwoActiveParallel(graph)) =>
        \A i \in 1..Len(graph.edges) : Listed(graph, bridges, i) <=> IsCutEdge(graph, i)

(* The flags then follow the endpoints: an edge is flagged exactly when   *)
(* it or a duplicate of it is a listed bridge.                            *)
C1_ActiveFlagsExact ==
    (lastOp = "dfs" /\ NoTwoActiveParallel(graph)) =>
        \A i \in 1..Len(graph.edges) :
            graph.edges[i].isBridge <=>
                \E j \in 1..Len(graph.edges) :
                    /\ IsCutEdge(graph, j)
                    /\ {graph.edges[j].source, graph.edges[j].target}
                         = {graph.edges[i].source, graph.edges[i].target}

(* A run that flagged a bridge and left unflagged an active edge and a    *)
(* failed edge of the same graph.                                         *)
C1_Witness ==
    /\ lastOp = "dfs"
    /\ NoParallelActive(graph)
    /\ \E i \in ActiveIdx(graph) : graph.edges[i].isBridge
    /\ \E i \in ActiveIdx(graph) : ~graph.edges[i].isBridge
    /\ \E i \in 1..Len(graph.edges) : ~graph.edges[i].isActive

(* C2: after runDFS a node is reported as an articulation point if and     *)
(* only if it is reachable from the first node over active edges and its   *)
(* removal raises the number of connected components; nodes the first node *)
(* cannot reach are never reported.                                        *)
C2_ArticulationExact ==
    lastOp = "dfs" =>
        /\ \A i \in 1..Len(graph.nodes) :
               graph.nodes[i].isArticulationPoint <=> IsCutNode(graph, graph.nodes[i].id)
        /\ {articulationPoints[k].id : k \in 1..Len(articulationPoints)}
             = {a \in NodeIds(graph) : IsCutNode(graph, a)}

(* A run that reported a node other than the root while another node is  *)
(* out of the root's reach.                                              *)
C2_Witness ==
    /\ lastOp = "dfs"
    /\ \E i \in 2..Len(graph.nodes) : graph.nodes[i].isArticulationPoint
    /\ Len(articulationPoints) > 0
    /\ FirstComponent(graph) # NodeIds(graph)

C2_WitnessRoot ==
    /\ lastOp = "dfs"
    /\ graph.nodes[1].isArticulationPoint
    /\ FirstComponent(graph) # NodeIds(graph)

-----------------------------------------------------------------------------
(* Shortest paths, by layers of the active-edge graph.                     *)

ActiveLinks(g) == Links(g.edges, ActiveIdx(g))

Reachable(g, a, b) == b \in Component(ActiveLinks(g), NodeIds(g), a)

(* The number of hops from the set S (d hops from the start) to b, which  *)
(* the start reaches.                                                     *)
RECURSIVE HopsFrom(_, _, _, _)
HopsFrom(g, S, b, d) ==
    IF b \in S THEN d
    ELSE HopsFrom(g, S \cup {c \in NodeIds(g) : \E a \in S : {a, c} \in ActiveLinks(g)},
                  b, d + 1)

Hops(g, a, b) == HopsFrom(g, {a}, b, 0)

LastMsg == algorithmResult[Len(algorithmResult)].msg

(* C3: a path runBFS returns starts with the source, ends with the target, *)
(* repeats no node, and each consecutive pair of it is joined by an edge   *)
(* that is active in the queried graph.                                    *)
C3_PathWellFormed ==
    (lastOp = "bfs" /\ path # <<>>) =>
        /\ path[1] = selectedNode
        /\ path[Len(path)] = targetNode
        /\ \A i \in 1..Len(path), j \in 1..Len(path) : i # j => path[i] # path[j]
        /\ \A i \in 1..(Len(path) - 1) :
               \E k \in 1..Len(graph.edges) :
                   /\ graph.edges[k].isActive
                   /\ {graph.edges[k].source, graph.edges[k].target} = {path[i], path[i + 1]}

(* A returned path of two hops in a graph that also has a failed edge. *)
C3_Witness ==
    /\ lastOp = "bfs"
    /\ Len(path) = 3
    /\ \E k \in 1..Len(graph.edges) : ~graph.edges[k].isActive

(* C4: the hop count of a returned path is the least number of active      *)
(* edges on any route from the source to the target.                       *)
C4_PathShortest ==
    (lastOp = "bfs" /\ path # <<>>) =>
        /\ Reachable(graph, selectedNode, targetNode)
        /\ Len(path) - 1 = Hops(graph, selectedNode, targetNode)

(* A one-hop answer where a two-hop route exists as well (a triangle). *)
C4_Witness ==
    /\ lastOp = "bfs"
    /\ Len(path) = 2
    /\ \E m \in NodeIds(graph) \ {selectedNode, targetNode} :
           /\ {selectedNode, m} \in ActiveLinks(graph)
           /\ {m, targetNode} \in ActiveLinks(graph)

(* C5: runBFS reports no path (the empty path and the "No path exists"     *)
(* line) exactly when the target is not reachable from the source over     *)
(* active edges.                                                           *)
C5_NotFoundExact ==
    lastOp = "bfs" =>
        /\ (path = <<>>) <=> ~Reachable(graph, selectedNode, targetNode)
        /\ (LastMsg = "No path exists") <=> ~Reachable(graph, selectedNode, targetNode)

(* No path is reported although a failed edge joins source and target. *)
C5_Witness ==
    /\ lastOp = "bfs"
    /\ path = <<>>
    /\ LastMsg = "No path exists"
    /\ \E k \in 1..Len(graph.edges) :
           /\ ~graph.edges[k].isActive
           /\ {graph.edges[k].source, graph.edges[k].target} = {selectedNode, targetNode}

-----------------------------------------------------------------------------
(* Recovery, stated over the reachable set R of the hub.                   *)

(* The first node of type hub, else the first node. *)
Hub(g) ==
    LET H == {i \in 1..Len(g.nodes) : g.nodes[i].type = "hub"}
    IN  IF H = {} THEN g.nodes[1].id
        ELSE g.nodes[CHOOSE i \in H : \A j \in H : i <= j].id

(* R, and the indices of the nodes in R and out of it. *)
HubReach(g) == Component(ActiveLinks(g), NodeIds(g), Hub(g))

InR(g) == {i \in 1..Len(g.nodes) : g.nodes[i].id \in HubReach(g)}

OutOfR(g) == {i \in 1..Len(g.nodes) : g.nodes[i].id \notin HubReach(g)}

(* The square of the Euclidean distance between nodes i and j. *)
Dist2(g, i, j) ==
    (g.nodes[i].x - g.nodes[j].x) * (g.nodes[i].x - g.nodes[j].x)
    + (g.nodes[i].y - g.nodes[j].y) * (g.nodes[i].y - g.nodes[j].y)

(* The node of R nearest to node d, the earliest in node order on a tie. *)
Nearest(g, d) ==
    CHOOSE r \in InR(g) :
        /\ \A q \in InR(g) : Dist2(g, d, r) <= Dist2(g, d, q)
        /\ \A q \in InR(g) : Dist2(g, d, q) = Dist2(g, d, r) => r <= q

RecoveryLinks == {{recoveryEdges[k].source, recoveryEdges[k].target} :
                     k \in {j \in 1..Len(recoveryEdges) : recoveryEdges[j].isActive}}

(* C6: after recoverNetwork, the active edges together with the returned   *)
(* recovery edges connect every node of the graph to the hub.              *)
C6_RecoveryConnects ==
    lastOp = "recover" =>
        Component(ActiveLinks(graph) \cup RecoveryLinks, NodeIds(graph), Hub(graph))
          = NodeIds(graph)

(* Two nodes were cut off and the hub is not the first node. *)
C6_Witness ==
    /\ lastOp = "recover"
    /\ Len(recoveryEdges) = 2
    /\ Hub(graph) # graph.nodes[1].id

(* C7: recoverNetwork emits exactly one recovery edge per node the hub     *)
(* cannot reach and none for the others; its source is that node, its      *)
(* target the node of R at minimal Euclidean distance, the earliest in     *)
(* node order on a tie; every emitted edge is active and marked recovery.  *)
C7_RecoveryEdgesExact ==
    lastOp = "recover" =>
        /\ \A d \in OutOfR(graph) :
               Cardinality({k \in 1..Len(recoveryEdges) :
                               recoveryEdges[k].source = graph.nodes[d].id}) = 1
        /\ \A k \in 1..Len(recoveryEdges) :
               /\ \E d \in OutOfR(graph) :
                      /\ recoveryEdges[k].source = graph.nodes[d].id
                      /\ recoveryEdges[k].target = graph.nodes[Nearest(graph, d)].id
               /\ recoveryEdges[k].target \in HubReach(graph)
               /\ recoveryEdges[k].isActive
               /\ recoveryEdges[k].isRecovery

(* A cut-off node with two nodes of R at the same least distance, joined  *)
(* to the earlier of the two.                                             *)
C7_Witness ==
    /\ lastOp = "recover"
    /\ \E d \in OutOfR(graph) :
           \E r \in InR(graph), q \in InR(graph) :
               /\ r < q
               /\ Dist2(graph, d, r) = Dist2(graph, d, q)
               /\ \A p \in InR(graph) : Dist2(graph, d, r) <= Dist2(graph, d, p)
               /\ \E k \in 1..Len(recoveryEdges) :
                      /\ recoveryEdges[k].source = graph.nodes[d].id
                      /\ recoveryEdges[k].target = graph.nodes[r].id

-----------------------------------------------------------------------------
(* Topology edits.                                                         *)

(* The edges whose unordered endpoint pair is {u, v}. *)
Matching(g, u, v) ==
    {i \in 1..Len(g.edges) : {g.edges[i].source, g.edges[i].target} = {u, v}}

(* Edge i of the new graph is edge i of the old one with isActive flipped. *)
Flipped(i) ==
    /\ graph'.edges[i].isActive = ~graph.edges[i].isActive
    /\ graph'.edges[i] = [graph.edges[i] EXCEPT !.isActive = graph'.edges[i].isActive]

(* The step flips the edges with index in F and changes nothing else of the graph. *)
FlipsExactly(F) ==
    /\ graph'.nodes = graph.nodes
    /\ Len(graph'.edges) = Len(graph.edges)
    /\ \A i \in 1..Len(graph.edges) :
           IF i \in F THEN Flipped(i) ELSE graph'.edges[i] = graph.edges[i]

(* C8 as stated: toggleEdge(u, v) flips isActive on exactly one edge, the  *)
(* first edge of the list whose unordered endpoint pair is {u, v}, leaves  *)
(* every other edge and all nodes unchanged, and changes nothing when no   *)
(* edge matches.                                                           *)
C8_FlipsFirstOnly ==
    [][\A u \in NodeIds(graph), v \in NodeIds(graph) :
           toggleEdge(u, v) =>
               LET M == Matching(graph, u, v)
               IN  FlipsExactly(IF M = {} THEN {}
                                ELSE {CHOOSE i \in M : \A j \in M : i <= j})]_vars

(* C8 as the code has it: toggleEdge(u, v) flips isActive on every edge    *)
(* whose unordered endpoint pair is {u, v}, parallel edges included,       *)
(* leaves every other edge and all nodes unchanged, and changes nothing    *)
(* when no edge matches.                                                   *)
C8_FlipsEveryMatch ==
    [][\A u \in NodeIds(graph), v \in NodeIds(graph) :
           toggleEdge(u, v) => FlipsExactly(Matching(graph, u, v))]_vars

(* After a toggle, two parallel edges both differ from the loaded         *)
(* topology while a third edge, between other nodes, is as loaded.        *)
C8_Witness ==
    /\ lastOp = "toggle"
    /\ \E i \in 1..Len(graph.edges), j \in 1..Len(graph.edges), k \in 1..Len(graph.edges) :
           /\ i < j
           /\ {graph.edges[i].source, graph.edges[i].target}
                = {graph.edges[j].source, graph.edges[j].target}
           /\ graph.edges[i].isActive # initialGraph.edges[i].isActive
           /\ graph.edges[j].isActive # initialGraph.edges[j].isActive
           /\ {graph.edges[k].source, graph.edges[k].target}
                # {graph.edges[i].source, graph.edges[i].target}
           /\ graph.edges[k] = initialGraph.edges[k]

(* C9: after resetSimulation every edge is active, no edge is flagged      *)
(* isBridge, no node isArticulationPoint, the recovery-edge, bridge and    *)
(* articulation-point lists, the path and the trace are empty, and the     *)
(* nodes and edges are those of the loaded topology.                       *)
C9_ResetClean ==
    lastOp = "reset" =>
        /\ \A i \in 1..Len(graph.edges) :
               /\ graph.edges[i].isActive
               /\ ~graph.edges[i].isBridge
        /\ \A i \in 1..Len(graph.nodes) : ~graph.nodes[i].isArticulationPoint
        /\ recoveryEdges = <<>>
        /\ bridges = <<>>
        /\ articulationPoints = <<>>
        /\ path = <<>>
        /\ algorithmResult = <<>>
        /\ Len(graph.nodes) = Len(initialGraph.nodes)
        /\ \A i \in 1..Len(graph.nodes) :
               graph.nodes[i] = [initialGraph.nodes[i] EXCEPT !.isArticulationPoint = FALSE]
        /\ Len(graph.edges) = Len(initialGraph.edges)
        /\ \A i \in 1..Len(graph.edges) :
               /\ graph.edges[i].source = initialGraph.edges[i].source
               /\ graph.edges[i].target = initialGraph.edges[i].target

(* A reset of a topology that was loaded with a link down. *)
C9_Witness ==
    /\ lastOp = "reset"
    /\ \E i \in 1..Len(initialGraph.edges) : ~initialGraph.edges[i].isActive

(* C10: in the state right after a toggle no edge carries isBridge, no     *)
(* node carries isArticulationPoint, and the bridge, articulation-point    *)
(* and recovery-edge lists are empty.                                      *)
C10_ToggleClearsDerived ==
    lastOp = "toggle" =>
        /\ \A i \in 1..Len(graph.edges) : ~graph.edges[i].isBridge
        /\ \A i \in 1..Len(graph.nodes) : ~graph.nodes[i].isArticulationPoint
        /\ bridges = <<>>
        /\ articulationPoints = <<>>
        /\ recoveryEdges = <<>>

(* What a toggle does clear: the path and the trace. *)
C10_ToggleClearsPath ==
    lastOp = "toggle" => (path = <<>> /\ algorithmResult = <<>>)

-----------------------------------------------------------------------------
(* Queries at the edge of the contract.                                    *)

(* C11: runBFS with the source equal to the target, a node of the graph,   *)
(* returns the one-element path of that node (zero hops) and reports it,   *)
(* whichever edges are active.                                             *)
C11_SelfPath ==
    (lastOp = "bfs" /\ selectedNode = targetNode) =>
        /\ path = <<selectedNode>>
        /\ Len(path) - 1 = 0
        /\ LastMsg = "Shortest path"
        /\ outcome = "returned"

(* A query from a node to itself, the node having a failed edge and an    *)
(* active edge.                                                           *)
C11_Witness ==
    /\ lastOp = "bfs"
    /\ selectedNode = targetNode
    /\ selectedNode \in NodeIds(graph)
    /\ path = <<selectedNode>>
    /\ \E j \in 1..Len(graph.edges), k \in 1..Len(graph.edges) :
           /\ graph.edges[j].isActive
           /\ ~graph.edges[k].isActive
           /\ selectedNode \in {graph.edges[j].source, graph.edges[j].target}
           /\ selectedNode \in {graph.edges[k].source, graph.edges[k].target}

(* The selection the handlers keep: selectedNode and targetNode are null   *)
(* or the id of a node of the graph, so runBFS is never run on an id that  *)
(* names no node and never throws.                                         *)
SelectionIsNode ==
    /\ selectedNode \in NodeIds(graph) \cup {Null}
    /\ targetNode \in NodeIds(graph) \cup {Null}
    /\ lastOp = "bfs" => outcome = "returned"

(* C13: recoverNetwork on a graph with no node ends in the EmptyGraph      *)
(* outcome: it throws nothing and leaves the recovery edges, the trace and *)
(* the graph as they were.                                                 *)
C13_EmptyGraphTyped ==
    [][(Recover /\ Len(graph.nodes) = 0) =>
           /\ outcome' = "EmptyGraph"
           /\ recoveryEdges' = recoveryEdges
           /\ algorithmResult' = algorithmResult
           /\ graph' = graph]_vars

(* What the code does: with no node the hub selection throws, with a node *)
(* or more the call returns.                                              *)
C13_EmptyThrows ==
    lastOp = "recover" =>
        IF Len(graph.nodes) = 0
        THEN outcome = "TypeError" /\ recoveryEdges = <<>> /\ algorithmResult = <<>>
        ELSE outcome = "returned" /\ algorithmResult # <<>>

-----------------------------------------------------------------------------
(* The algorithms and the state around them.                               *)

(* The topology of a graph: its nodes without the articulation flag and   *)
(* its edges, in order, with their endpoints and isActive.                *)
Topology(g) ==
    [nodes |-> [i \in 1..Len(g.nodes) |->
                   [id |-> g.nodes[i].id, x |-> g.nodes[i].x, y |-> g.nodes[i].y,
                    type |-> g.nodes[i].type]],
     edges |-> [i \in 1..Len(g.edges) |->
                   [source |-> g.edges[i].source, target |-> g.edges[i].target,
                    isActive |-> g.edges[i].isActive]]]

(* C14: runDFS, runBFS and recoverNetwork leave the topology as it was:    *)
(* the node list, the edge list's endpoints and order and every isActive   *)
(* flag; recovery edges go to their own list, never into the edge list.    *)
C14_TopologyKept ==
    [][(RunDFS \/ RunBFS \/ Recover) =>
           /\ Topology(graph') = Topology(graph)
           /\ \A i \in 1..Len(graph'.edges) : ~graph'.edges[i].isRecovery
           /\ \A k \in 1..Len(recoveryEdges') : recoveryEdges'[k].isRecovery
           /\ initialGraph' = initialGraph]_vars

(* All three have run on a graph with a failed link: a bridge is flagged, *)
(* a path is shown and a recovery edge is listed.                         *)
C14_Witness ==
    /\ lastOp = "recover"
    /\ recoveryEdges # <<>>
    /\ path # <<>>
    /\ \E i \in 1..Len(graph.edges) : graph.edges[i].isBridge
    /\ \E i \in 1..Len(graph.edges) : ~graph.edges[i].isActive

(* The edges a bridge list names, and the nodes an articulation list names. *)
BridgeRefs(bs) == {<<bs[k].source, bs[k].target>> : k \in 1..Len(bs)}

PointIds(ps) == {ps[k].id : k \in 1..Len(ps)}

FlaggedEdges(g) == {i \in 1..Len(g.edges) : g.edges[i].isBridge}

FlaggedNodes(g) == {i \in 1..Len(g.nodes) : g.nodes[i].isArticulationPoint}

(* C15: a runDFS that directly follows a runDFS reports the bridges and    *)
(* the articulation points the first one reported, in the lists and in     *)
(* the flags, although it reads the graph the first one annotated.         *)
C15_AnalysisIdempotent ==
    [][(lastOp = "dfs" /\ RunDFS) =>
           /\ BridgeRefs(bridges') = BridgeRefs(bridges)
           /\ PointIds(articulationPoints') = PointIds(articulationPoints)
           /\ FlaggedEdges(graph') = FlaggedEdges(graph)
           /\ FlaggedNodes(graph') = FlaggedNodes(graph)]_vars

(* After a second run: a listed bridge carries the isBridge flag the      *)
(* first run wrote, and an articulation point is listed.                  *)
C15_Witness ==
    /\ lastOp = "dfs"
    /\ \E k \in 1..Len(bridges) : bridges[k].isBridge
    /\ articulationPoints # <<>>
    /\ \E i \in 1..Len(graph.edges) : ~graph.edges[i].isBridge

(* The active edges that join nodes a and b, either way round. *)
ActiveBetween(g, a, b) == {j \in ActiveIdx(g) : {g.edges[j].source, g.edges[j].target} = {a, b}}

(* C16: after runDFS, a node joined to its DFS parent by two or more       *)
(* active edges has a low-link no greater than the parent's discovery      *)
(* time (the further parallel edges count as back edges), and no edge      *)
(* between two nodes joined by two or more active edges is listed or       *)
(* flagged as a bridge.                                                    *)
C16_ParallelNeverBridge ==
    lastOp = "dfs" =>
        LET r == DFSRun(graph) IN
        /\ \A v \in r.visited :
               (r.parent[v] # Null /\ Cardinality(ActiveBetween(graph, r.parent[v], v)) >= 2)
                   => r.lowTime[v] <= r.discoveryTime[r.parent[v]]
        /\ \A i \in 1..Len(graph.edges) :
               Cardinality(ActiveBetween(graph, graph.edges[i].source, graph.edges[i].target)) >= 2
                   => /\ ~graph.edges[i].isBridge
                      /\ \A k \in 1..Len(bridges) :
                             ~SamePair(bridges[k], graph.edges[i].source, graph.edges[i].target)

(* What the code does: the parent is skipped by node id, so parallel      *)
(* edges count as one link; the listed bridges are the links of the       *)
(* first node's component whose active edges, removed together, raise     *)
(* the number of components.                                              *)
C16_ParentSkippedById ==
    lastOp = "dfs" =>
        \A i \in ActiveIdx(graph) :
            (\E k \in 1..Len(bridges) :
                 SamePair(bridges[k], graph.edges[i].source, graph.edges[i].target))
            <=> /\ graph.edges[i].source \in FirstComponent(graph)
                /\ NumComponents(ActiveLinks(graph)
                                    \ {{graph.edges[i].source, graph.edges[i].target}},
                                  NodeIds(graph))
                     > NumComponents(ActiveLinks(graph), NodeIds(graph))

(* C17: in every state of the simulator, a non-empty path comes with a    *)
(* selected source and a selected target other than the source, starts at  *)
(* the source, ends at the target, and each consecutive pair of it is      *)
(* joined by an edge that is active in the current graph.                  *)
C17_PathCurrent ==
    path # <<>> =>
        /\ selectedNode # Null
        /\ targetNode # Null
        /\ selectedNode # targetNode
        /\ path[1] = selectedNode
        /\ path[Len(path)] = targetNode
        /\ \A i \in 1..(Len(path) - 1) : ActiveBetween(graph, path[i], path[i + 1]) # {}

(* A two-hop path is still shown after later handlers ran, the last one   *)
(* the switch to failure mode.                                            *)
C17_Witness ==
    /\ Len(path) = 3
    /\ lastOp = "mode"
    /\ mode = "failure"
    /\ recoveryEdges = <<>>
    /\ selectedNode = path[1]

=============================================================================
